---------------------------- MODULE Spec2Model ----------------------------
(***************************************************************************)
(* Virtual touch calculator (src/calculator.py): the touch debouncer, the  *)
(* calculator state machine, the history log and the button hit test.      *)
(*                                                                         *)
(* Python strings are modelled as sequences of one-character strings, so   *)
(* that "Error" is <<"E","r","r","o","r">>.  Python floats are modelled as *)
(* IEEE-754 binary64 values m * 2^e with an arbitrary-precision natural m  *)
(* (TLC integers are 32 bits wide): every conversion and every arithmetic  *)
(* operation rounds to nearest, ties to even, exactly as CPython does.     *)
(***************************************************************************)
EXTENDS Integers, Sequences, FiniteSets, TLC

(***************************************************************************)
(* Arbitrary-precision naturals: little-endian sequences of limbs in       *)
(* 0..Base-1 without a most-significant zero limb; zero is <<>>.           *)
(***************************************************************************)
Base == 10^4

(***************************************************************************)
(* TLC keeps a stack frame per recursive call and passes arguments         *)
(* unevaluated, so the carry loops take four limbs a step and keep their   *)
(* result in an accumulator whose length is the loop index.                *)
(***************************************************************************)
Limb(a, i) == IF i >= 1 /\ i <= Len(a) THEN a[i] ELSE 0

MaxOf(S) == CHOOSE i \in S : \A j \in S : j <= i

\* a without its leading zero limbs.
Norm(a) ==
    LET nz == {i \in 1..Len(a) : a[i] # 0}
    IN  IF nz = {} THEN <<>> ELSE SubSeq(a, 1, MaxOf(nz))

\* -1, 0 or 1 as a < b, a = b, a > b.
Cmp(a, b) ==
    IF Len(a) < Len(b) THEN -1
    ELSE IF Len(a) > Len(b) THEN 1
    ELSE LET df == {i \in 1..Len(a) : a[i] # b[i]}
         IN  IF df = {} THEN 0
             ELSE IF a[MaxOf(df)] < b[MaxOf(df)] THEN -1 ELSE 1

RECURSIVE AddC(_, _, _, _)
AddC(a, b, c, acc) ==
    LET i  == Len(acc) + 1
        s1 == Limb(a, i) + Limb(b, i) + c
        s2 == Limb(a, i + 1) + Limb(b, i + 1) + s1 \div Base
        s3 == Limb(a, i + 2) + Limb(b, i + 2) + s2 \div Base
        s4 == Limb(a, i + 3) + Limb(b, i + 3) + s3 \div Base
    IN  IF i > Len(a) /\ i > Len(b)
        THEN (IF c = 0 THEN acc ELSE Append(acc, c))
        ELSE AddC(a, b, s4 \div Base,
                  acc \o <<s1 % Base, s2 % Base, s3 % Base, s4 % Base>>)

Add(a, b) == Norm(AddC(a, b, 0, <<>>))

RECURSIVE SubB(_, _, _, _)
SubB(a, b, c, acc) ==
    LET i  == Len(acc) + 1
        d1 == Limb(a, i) - Limb(b, i) - c
        d2 == Limb(a, i + 1) - Limb(b, i + 1) - (IF d1 < 0 THEN 1 ELSE 0)
        d3 == Limb(a, i + 2) - Limb(b, i + 2) - (IF d2 < 0 THEN 1 ELSE 0)
        d4 == Limb(a, i + 3) - Limb(b, i + 3) - (IF d3 < 0 THEN 1 ELSE 0)
    IN  IF i > Len(a) THEN acc
        ELSE SubB(a, b, IF d4 < 0 THEN 1 ELSE 0,
                  acc \o <<(d1 + Base) % Base, (d2 + Base) % Base,
                           (d3 + Base) % Base, (d4 + Base) % Base>>)

\* a - b for a >= b.
Sub(a, b) == Norm(SubB(a, b, 0, <<>>))

RECURSIVE MulC(_, _, _, _)
MulC(a, k, c, acc) ==
    LET i  == Len(acc) + 1
        p1 == Limb(a, i) * k + c
        p2 == Limb(a, i + 1) * k + p1 \div Base
        p3 == Limb(a, i + 2) * k + p2 \div Base
        p4 == Limb(a, i + 3) * k + p3 \div Base
    IN  IF i > Len(a)
        THEN (IF c = 0 THEN acc ELSE Append(acc, c))
        ELSE MulC(a, k, p4 \div Base,
                  acc \o <<p1 % Base, p2 % Base, p3 % Base, p4 % Base>>)

\* a * k for a small k in 0..Base.
MulSmall(a, k) == Norm(MulC(a, k, 0, <<>>))

\* a * Base^n.
ShiftLimbs(a, n) == IF a = <<>> THEN a ELSE [i \in 1..n |-> 0] \o a

RECURSIVE MulFrom(_, _, _, _)
\* acc * Base^j + a * (the limbs j, ..., 1 of b).
MulFrom(a, b, j, acc) ==
    IF j = 0 \/ Len(acc) < 0 THEN acc
    ELSE MulFrom(a, b, j - 1, Add(MulSmall(a, b[j]), ShiftLimbs(acc, 1)))

Mul(a, b) == IF a = <<>> THEN a ELSE MulFrom(a, b, Len(b), <<>>)

RECURSIVE QDigit(_, _, _, _)
\* The largest d in lo..hi with b * d <= cur.
QDigit(cur, b, lo, hi) ==
    IF lo = hi THEN lo
    ELSE LET mid == (lo + hi + 1) \div 2
         IN  IF Cmp(MulSmall(b, mid), cur) <= 0
             THEN QDigit(cur, b, mid, hi)
             ELSE QDigit(cur, b, lo, mid - 1)

RECURSIVE DivModFrom(_, _, _, _, _)
\* Long division by b of the n low limbs of a still to bring down, after
\* the quotient limbs q and the remainder r.
DivModFrom(a, b, n, q, r) ==
    LET i   == n - Len(q)
        cur == Norm(<<Limb(a, i)>> \o r)
    IN  IF i = 0 THEN [q |-> Norm(q), r |-> r]
        ELSE IF Cmp(cur, b) < 0
        THEN DivModFrom(a, b, n, <<0>> \o q, cur)
        ELSE LET d == QDigit(cur, b, 1, Base - 1)
             IN  DivModFrom(a, b, n, <<d>> \o q, Sub(cur, MulSmall(b, d)))

\* Quotient and remainder of a by b, b # 0: the division starts with the
\* Len(b) - 1 high limbs of a as the remainder.
DivMod(a, b) ==
    IF Len(a) < Len(b) THEN [q |-> <<>>, r |-> a]
    ELSE DivModFrom(a, b, Len(a) - Len(b) + 1, <<>>,
                    SubSeq(a, Len(a) - Len(b) + 2, Len(a)))

RECURSIVE MulPow2(_, _)
MulPow2(a, n) ==
    IF n = 0 \/ a = <<>> THEN a
    ELSE IF n >= 52
    THEN MulPow2(MulSmall(MulSmall(MulSmall(MulSmall(a, 8192), 8192), 8192), 8192), n - 52)
    ELSE IF n >= 13 THEN MulPow2(MulSmall(a, 8192), n - 13)
    ELSE MulSmall(a, 2^n)

Pow2(n) == MulPow2(<<1>>, n)

\* a * 10^n: whole limbs are shifted in, the rest is one small product.
MulPow10(a, n) == ShiftLimbs(MulSmall(a, 10^(n % 4)), n \div 4)

Pow10(n) == MulPow10(<<1>>, n)

RECURSIVE BitSearch(_, _, _)
\* The least n in lo..hi with a < 2^n.
BitSearch(a, lo, hi) ==
    IF lo = hi THEN lo
    ELSE LET mid == (lo + hi) \div 2
         IN  IF Cmp(a, Pow2(mid)) < 0
             THEN BitSearch(a, lo, mid)
             ELSE BitSearch(a, mid + 1, hi)

\* The number of binary digits of a (0 for zero); a limb has at most 14.
BitLen(a) == BitSearch(a, 0, 14 * Len(a))

\* The natural of a small integer v in 0..Base^2-1.
NatOf(v) == Norm(<<v % Base, v \div Base>>)

IsOdd(a) == a # <<>> /\ a[1] % 2 = 1

\* q, or q + 1 when the remainder is more than half (c > 0) or is half
\* (c = 0) and q is odd.
TieToEven(q, c) == IF c > 0 \/ (c = 0 /\ IsOdd(q)) THEN Add(q, <<1>>) ELSE q

RoundQuotient(d, b) == TieToEven(d.q, Cmp(MulSmall(d.r, 2), b))

\* a / b rounded to the nearest natural, ties to even.
RoundDiv(a, b) == RoundQuotient(DivMod(a, b), b)

\* a * 2^n and a * 10^n for n > 0, a otherwise.
Scale2(a, n) == IF n > 0 THEN MulPow2(a, n) ELSE a

Scale10(a, n) == IF n > 0 THEN MulPow10(a, n) ELSE a

(***************************************************************************)
(* Decimal digits.                                                         *)
(***************************************************************************)
DigitChars == <<"0", "1", "2", "3", "4", "5", "6", "7", "8", "9">>

DigitSet == {DigitChars[i] : i \in 1..10}

\* str.isdigit() of a one-character button text.
IsDigit(c) == c \in DigitSet

DigitVal(c) == (CHOOSE i \in 1..10 : DigitChars[i] = c) - 1

DigitChar(d) == DigitChars[d + 1]

RECURSIVE StripLeft(_, _)
\* s without its leading occurrences of c.
StripLeft(s, c) ==
    IF s # <<>> /\ Head(s) = c THEN StripLeft(Tail(s), c) ELSE s

RECURSIVE RStrip(_, _)
\* str.rstrip(c).
RStrip(s, c) ==
    IF s # <<>> /\ s[Len(s)] = c THEN RStrip(SubSeq(s, 1, Len(s) - 1), c) ELSE s

RECURSIVE LimbOf(_)
\* The value of at most four decimal digit characters.
LimbOf(ds) ==
    IF ds = <<>> THEN 0
    ELSE 10 * LimbOf(SubSeq(ds, 1, Len(ds) - 1)) + DigitVal(ds[Len(ds)])

RECURSIVE FromDigitsRec(_)
FromDigitsRec(ds) ==
    IF ds = <<>> THEN <<>>
    ELSE IF Len(ds) <= 4 THEN <<LimbOf(ds)>>
    ELSE <<LimbOf(SubSeq(ds, Len(ds) - 3, Len(ds)))>>
           \o FromDigitsRec(SubSeq(ds, 1, Len(ds) - 4))

\* The natural written by a sequence of decimal digit characters.
FromDigits(ds) == Norm(FromDigitsRec(ds))

\* The decimal digit characters of a, most significant first; <<>> for zero.
ToDigits(a) ==
    StripLeft([j \in 1..(4 * Len(a)) |->
                  DigitChar((a[Len(a) - (j - 1) \div 4] \div 10^(3 - ((j - 1) % 4))) % 10)],
              "0")

\* The decimal digit characters of a, left-padded with zeros to n characters.
ToDigitsPad(a, n) ==
    LET d == ToDigits(a)
    IN  IF Len(d) >= n THEN d ELSE [i \in 1..(n - Len(d)) |-> "0"] \o d

NumDigits(a) == Len(ToDigits(a))

(***************************************************************************)
(* IEEE-754 binary64.  A finite value is (-1)^neg * m * 2^e with m = 0, or *)
(* 2^52 <= m < 2^53 (normal, -1074 <= e <= 971), or m < 2^52 and e = -1074 *)
(* (subnormal); infinities and NaN are kinds of their own.                 *)
(***************************************************************************)
TwoTo52 == Pow2(52)

TwoTo53 == Pow2(53)

DZero(neg) == [k |-> "fin", neg |-> neg, m |-> <<>>, e |-> 0]

DInf(neg) == [k |-> "inf", neg |-> neg, m |-> <<>>, e |-> 0]

DNaN == [k |-> "nan", neg |-> FALSE, m |-> <<>>, e |-> 0]

IsZero(x) == x.k = "fin" /\ x.m = <<>>

\* floor(log2(num / den)) for num, den # 0; e0 is the difference of their
\* bit lengths, which is the logarithm or one more.
FloorLog2From(num, den, e0) ==
    IF Cmp(Scale2(num, -e0), Scale2(den, e0)) >= 0 THEN e0 ELSE e0 - 1

FloorLog2(num, den) == FloorLog2From(num, den, BitLen(num) - BitLen(den))

\* The value with the rounded significand m at the exponent e: a carry out
\* of 53 bits moves to the next exponent, and past the largest is infinity.
Pack(neg, m, e) ==
    IF m = <<>> THEN DZero(neg)
    ELSE IF m = TwoTo53
    THEN (IF e + 1 > 971 THEN DInf(neg)
          ELSE [k |-> "fin", neg |-> neg, m |-> TwoTo52, e |-> e + 1])
    ELSE IF e > 971 THEN DInf(neg)
    ELSE [k |-> "fin", neg |-> neg, m |-> m, e |-> e]

RoundAt(neg, num, den, e) ==
    Pack(neg, RoundDiv(Scale2(num, -e), Scale2(den, e)), e)

RoundFrom(neg, num, den, lg) ==
    IF lg > 1024 THEN DInf(neg)
    ELSE IF lg < -1080 THEN DZero(neg)
    ELSE RoundAt(neg, num, den, IF lg - 52 < -1074 THEN -1074 ELSE lg - 52)

\* The binary64 value nearest to (-1)^neg * num / den (ties to even), den # 0.
RoundToDouble(neg, num, den) ==
    IF num = <<>> THEN DZero(neg)
    ELSE RoundFrom(neg, num, den, FloorLog2(num, den))

\* The numerator and denominator of |x| for a finite x.
DNum(x) == Scale2(x.m, x.e)

DDen(x) == Scale2(<<1>>, -x.e)

DNeg(x) == [x EXCEPT !.neg = ~x.neg]

\* |x| < |y| for finite x and y.
DLessAbs(x, y) == Cmp(Mul(DNum(x), DDen(y)), Mul(DNum(y), DDen(x))) < 0

\* The exact sum of (-1)^xn * a * 2^e and (-1)^yn * b * 2^e as a fraction
\* with its sign; an exact zero is positive.
SumOf(xn, a, yn, b, e) ==
    [neg |-> IF xn = yn \/ Cmp(a, b) > 0 THEN xn ELSE Cmp(a, b) < 0 /\ yn,
     num |-> Scale2(IF xn = yn THEN Add(a, b)
                    ELSE IF Cmp(a, b) >= 0 THEN Sub(a, b) ELSE Sub(b, a), e),
     den |-> Scale2(<<1>>, -e)]

ExactSumAt(x, y, e) ==
    SumOf(x.neg, MulPow2(x.m, x.e - e), y.neg, MulPow2(y.m, y.e - e), e)

\* The exact results of x + y, x * y and x / y for finite x, y other than 0.
ExactSum(x, y) == ExactSumAt(x, y, IF x.e < y.e THEN x.e ELSE y.e)

ExactProduct(x, y) ==
    [neg |-> x.neg # y.neg,
     num |-> Scale2(Mul(x.m, y.m), x.e + y.e),
     den |-> Scale2(<<1>>, -(x.e + y.e))]

ExactQuotient(x, y) ==
    [neg |-> x.neg # y.neg,
     num |-> Scale2(x.m, x.e - y.e),
     den |-> Scale2(y.m, y.e - x.e)]

RoundExact(r) == RoundToDouble(r.neg, r.num, r.den)

\* What x + y, x * y and x / y are without rounding when an operand is not
\* a finite number other than zero; "exact" otherwise.  The divisor is never
\* zero: calculate returns before dividing by it.
Special(op, x, y) ==
    IF x.k = "nan" \/ y.k = "nan" THEN DNaN
    ELSE IF op = "+"
    THEN (IF x.k = "inf" /\ y.k = "inf" THEN (IF x.neg = y.neg THEN x ELSE DNaN)
          ELSE IF x.k = "inf" THEN x
          ELSE IF y.k = "inf" THEN y
          ELSE IF x.m = <<>> /\ y.m = <<>> THEN DZero(x.neg /\ y.neg)
          ELSE IF x.m = <<>> THEN y
          ELSE IF y.m = <<>> THEN x
          ELSE [k |-> "exact"])
    ELSE IF op = "×"
    THEN (IF x.k = "inf" \/ y.k = "inf"
          THEN (IF IsZero(x) \/ IsZero(y) THEN DNaN ELSE DInf(x.neg # y.neg))
          ELSE IF x.m = <<>> \/ y.m = <<>> THEN DZero(x.neg # y.neg)
          ELSE [k |-> "exact"])
    ELSE (IF x.k = "inf" THEN (IF y.k = "inf" THEN DNaN ELSE DInf(x.neg # y.neg))
          ELSE IF y.k = "inf" \/ x.m = <<>> THEN DZero(x.neg # y.neg)
          ELSE [k |-> "exact"])

\* float.__add__, __mul__ and __truediv__ (op is "+", "×" or "÷").
FloatOp(op, x, y) ==
    IF Special(op, x, y).k # "exact" THEN Special(op, x, y)
    ELSE RoundExact(IF op = "+" THEN ExactSum(x, y)
                    ELSE IF op = "×" THEN ExactProduct(x, y)
                    ELSE ExactQuotient(x, y))

(***************************************************************************)
(* float(str): the strings the calculator can hold are made of digits, the *)
(* point, signs, the "e" of a formatted result and the letters of "Error"  *)
(* and "inf"; white space and underscores never occur in them.             *)
(***************************************************************************)
AllDigits(s) == \A i \in 1..Len(s) : s[i] \in DigitSet

\* The index of the first element of s that is in set cs, 0 if there is none.
FirstIn(s, cs) ==
    IF \E i \in 1..Len(s) : s[i] \in cs
    THEN CHOOSE i \in 1..Len(s) : s[i] \in cs /\ \A j \in 1..(i - 1) : s[j] \notin cs
    ELSE 0

RECURSIVE ExpVal(_)
\* The value of the digits of an exponent, saturated (any exponent this
\* large overflows or underflows whatever the mantissa the display can hold).
ExpVal(ds) ==
    IF ds = <<>> THEN 0
    ELSE LET v == 10 * ExpVal(SubSeq(ds, 1, Len(ds) - 1)) + DigitVal(ds[Len(ds)])
         IN  IF v > 100000 THEN 100000 ELSE v

Lower(c) ==
    CASE c = "I" -> "i" [] c = "N" -> "n" [] c = "F" -> "f" [] c = "A" -> "a"
      [] c = "T" -> "t" [] c = "Y" -> "y" [] OTHER -> c

\* The syntax of float(s): [ok, special, neg, digs, exp], the value being
\* (-1)^neg * digs * 10^exp, or an infinity or NaN when special says so.
ParseFloat(s) ==
    LET bad    == [ok |-> FALSE, special |-> "", neg |-> FALSE, digs |-> <<>>, exp |-> 0]
        signed == s # <<>> /\ s[1] \in {"+", "-"}
        neg    == signed /\ s[1] = "-"
        body   == IF signed THEN Tail(s) ELSE s
        low    == [i \in 1..Len(body) |-> Lower(body[i])]
        ei     == FirstIn(body, {"e", "E"})
        mant   == IF ei = 0 THEN body ELSE SubSeq(body, 1, ei - 1)
        etxt   == IF ei = 0 THEN <<>> ELSE SubSeq(body, ei + 1, Len(body))
        esign  == etxt # <<>> /\ etxt[1] \in {"+", "-"}
        edigs  == IF esign THEN Tail(etxt) ELSE etxt
        pi     == FirstIn(mant, {"."})
        ipart  == IF pi = 0 THEN mant ELSE SubSeq(mant, 1, pi - 1)
        fpart  == IF pi = 0 THEN <<>> ELSE SubSeq(mant, pi + 1, Len(mant))
        ev     == IF esign /\ etxt[1] = "-" THEN -ExpVal(edigs) ELSE ExpVal(edigs)
    IN  IF low \in {<<"i", "n", "f">>, <<"i", "n", "f", "i", "n", "i", "t", "y">>}
        THEN [ok |-> TRUE, special |-> "inf", neg |-> neg, digs |-> <<>>, exp |-> 0]
        ELSE IF low = <<"n", "a", "n">>
        THEN [ok |-> TRUE, special |-> "nan", neg |-> neg, digs |-> <<>>, exp |-> 0]
        ELSE IF ~AllDigits(ipart) \/ ~AllDigits(fpart) \/ ipart \o fpart = <<>>
        THEN bad
        ELSE IF ei # 0 /\ (edigs = <<>> \/ ~AllDigits(edigs))
        THEN bad
        ELSE [ok |-> TRUE, special |-> "", neg |-> neg,
              digs |-> ipart \o fpart, exp |-> ev - Len(fpart)]

\* The binary64 value of a decimal: (-1)^neg * digs * 10^exp, correctly rounded.
DecimalToDouble(neg, digs, exp) ==
    LET ds == StripLeft(digs, "0")
        a  == Len(ds) + exp - 1
    IN  IF ds = <<>> THEN DZero(neg)
        ELSE IF a >= 310 THEN DInf(neg)
        ELSE IF a <= -326 THEN DZero(neg)
        ELSE RoundToDouble(neg,
                           IF exp > 0 THEN MulPow10(FromDigits(ds), exp) ELSE FromDigits(ds),
                           IF exp < 0 THEN Pow10(-exp) ELSE <<1>>)

FloatOfParsed(p) ==
    IF ~p.ok THEN [ok |-> FALSE, v |-> DNaN]
    ELSE IF p.special = "inf" THEN [ok |-> TRUE, v |-> DInf(p.neg)]
    ELSE IF p.special = "nan" THEN [ok |-> TRUE, v |-> DNaN]
    ELSE [ok |-> TRUE, v |-> DecimalToDouble(p.neg, p.digs, p.exp)]

\* float(s): [ok |-> FALSE] stands for the ValueError float() raises.
PyFloat(s) == FloatOfParsed(ParseFloat(s))

(***************************************************************************)
(* Number formatting.                                                      *)
(***************************************************************************)
Minus(neg) == IF neg THEN <<"-">> ELSE <<>>

\* The decimal exponent of the first digit of num / den; a0 is the
\* difference of their digit counts, which is the exponent or one more.
DecExpFrom(num, den, a0) ==
    IF Cmp(Scale10(num, -a0), Scale10(den, a0)) >= 0 THEN a0 ELSE a0 - 1

DecExp(num, den) == DecExpFrom(num, den, NumDigits(num) - NumDigits(den))

\* n digits that rounding carried to 10^n are 1 followed by zeros, one
\* exponent up.
SigPack(q, a, n) ==
    IF q = Pow10(n) THEN [q |-> Pow10(n - 1), a |-> a + 1] ELSE [q |-> q, a |-> a]

SigAt(num, den, n, a) ==
    SigPack(RoundDiv(Scale10(num, n - 1 - a), Scale10(den, a - n + 1)), a, n)

\* The n significant decimal digits of num / den (rounded, ties to even) as a
\* natural q and the decimal exponent a of its first digit: q * 10^(a-n+1).
SigDigits(num, den, n) == SigAt(num, den, n, DecExp(num, den))

\* The exponent of a "%e" or repr() form: a sign and at least two digits.
ExpChars(a) ==
    <<"e", IF a < 0 THEN "-" ELSE "+">> \o ToDigitsPad(NatOf(IF a < 0 THEN -a ELSE a), 2)

SciChars(neg, d, a) == Minus(neg) \o <<d[1], ".", d[2], d[3]>> \o ExpChars(a)

SciOf(neg, sd) == SciChars(neg, ToDigits(sd.q), sd.a)

\* f"{x:.2e}"
FormatSci2(x) ==
    IF x.k = "nan" THEN <<"n", "a", "n">>
    ELSE IF x.k = "inf" THEN Minus(x.neg) \o <<"i", "n", "f">>
    ELSE IF x.m = <<>> THEN Minus(x.neg) \o <<"0", ".", "0", "0", "e", "+", "0", "0">>
    ELSE SciOf(x.neg, SigDigits(DNum(x), DDen(x), 3))

FixedChars(neg, d) ==
    Minus(neg) \o SubSeq(d, 1, Len(d) - 8) \o <<".">> \o SubSeq(d, Len(d) - 7, Len(d))

\* f"{x:.8f}" for a finite x.
FormatFixed8(x) ==
    FixedChars(x.neg, ToDigitsPad(RoundDiv(MulPow10(DNum(x), 8), DDen(x)), 9))

\* x == int(x) for a finite x.
IsIntegral(x) ==
    x.m = <<>> \/ x.e >= 0 \/ (x.e >= -52 /\ DivMod(x.m, Pow2(-x.e)).r = <<>>)

IntChars(neg, v) == IF v = <<>> THEN <<"0">> ELSE Minus(neg) \o ToDigits(v)

\* str(int(x)) for a finite x with an integral value.
IntStr(x) ==
    IntChars(x.neg, IF x.e >= 0 THEN MulPow2(x.m, x.e) ELSE DivMod(x.m, Pow2(-x.e)).q)

\* The double that float() reads from the digits q at the exponent sh.
ReadBack(neg, q, sh) == RoundToDouble(neg, Scale10(q, sh), Scale10(<<1>>, -sh))

\* The digits sd.q of n digits read back as x.
ReadsBack(x, n, sd) == ReadBack(x.neg, sd.q, sd.a - n + 1) = x

\* The n digits next above and next below the digits sd.
SigAbove(n, sd) == SigPack(Add(sd.q, <<1>>), sd.a, n)

SigBelow(n, sd) ==
    IF sd.q = Pow10(n - 1) THEN sd ELSE [sd EXCEPT !.q = Sub(sd.q, <<1>>)]

RECURSIVE ShortestFrom(_, _)
RECURSIVE ShortestTry(_, _, _)
\* The n digits sd are those nearest to x.  When they do not read back as
\* x, the n digits on the other side of x may: the doubles below a power
\* of two are twice as dense as those above it.
ShortestTry(x, n, sd) ==
    IF n >= 17 \/ ReadsBack(x, n, sd) THEN sd
    ELSE IF ReadsBack(x, n, SigAbove(n, sd)) THEN SigAbove(n, sd)
    ELSE IF ReadsBack(x, n, SigBelow(n, sd)) THEN SigBelow(n, sd)
    ELSE ShortestFrom(x, n + 1)

\* The shortest decimal, of n or more significant digits, that float() reads
\* back as x (repr's digits), the nearest to x of that length: 17 digits
\* always do.
ShortestFrom(x, n) == ShortestTry(x, n, SigDigits(DNum(x), DDen(x), n))

\* The digits d with the decimal point after the first decpt of them; in
\* exponent form when decpt > 16 or decpt < -3.
ReprChars(d, decpt) ==
    IF decpt > 16 \/ decpt < -3
    THEN <<d[1]>> \o (IF Len(d) > 1 THEN <<".">> \o Tail(d) ELSE <<>>) \o ExpChars(decpt - 1)
    ELSE IF decpt <= 0
    THEN <<"0", ".">> \o [i \in 1..(-decpt) |-> "0"] \o d
    ELSE IF decpt >= Len(d)
    THEN d \o [i \in 1..(decpt - Len(d)) |-> "0"] \o <<".", "0">>
    ELSE SubSeq(d, 1, decpt) \o <<".">> \o SubSeq(d, decpt + 1, Len(d))

ReprOf(sd) == ReprChars(RStrip(ToDigits(sd.q), "0"), sd.a + 1)

\* str(x) of a float: repr(), the shortest digits that round-trip.
FloatStr(x) ==
    IF x.k = "nan" THEN <<"n", "a", "n">>
    ELSE IF x.k = "inf" THEN Minus(x.neg) \o <<"i", "n", "f">>
    ELSE IF x.m = <<>> THEN Minus(x.neg) \o <<"0", ".", "0">>
    ELSE Minus(x.neg) \o ReprOf(ShortestFrom(x, 1))

(***************************************************************************)
(* calculate(num1, operation, num2)                                        *)
(***************************************************************************)
ErrorStr == <<"E", "r", "r", "o", "r">>

\* The float literals 999999999 and 0.000001 of the formatting rule.
BigLimit == DecimalToDouble(FALSE, <<"9", "9", "9", "9", "9", "9", "9", "9", "9">>, 0)

TinyLimit == DecimalToDouble(FALSE, <<"1">>, -6)

\* abs(result) > 999999999 or abs(result) < 0.000001 and result != 0
OutOfRange(result) ==
    \/ result.k = "inf"
    \/ DLessAbs(BigLimit, result)
    \/ (DLessAbs(result, TinyLimit) /\ result.m # <<>>)

\* Lines 316-322: the formatting of a result; int() of a NaN raises.
FormatResult(result) ==
    IF result.k = "nan" THEN ErrorStr
    ELSE IF OutOfRange(result) THEN FormatSci2(result)
    ELSE IF IsIntegral(result) THEN IntStr(result)
    ELSE RStrip(RStrip(FormatFixed8(result), "0"), ".")

\* A division that only refuses a zero divisor under a dividend that is
\* not zero.
CalculateFloatsZeroByZero(n1, op, n2) ==
    IF ~n1.ok \/ ~n2.ok THEN ErrorStr
    ELSE IF op \notin {"+", "-", "×", "÷"} THEN ErrorStr
    ELSE IF op = "÷" /\ IsZero(n2.v) /\ ~IsZero(n1.v) THEN ErrorStr
    ELSE FormatResult(FloatOp(IF op = "-" THEN "+" ELSE op, n1.v,
                              IF op = "-" THEN DNeg(n2.v) ELSE n2.v))

\* Lines 303-314 for operands that float() has read: a - b is a + (-b).
CalculateFloats(n1, op, n2) ==
    IF ~n1.ok \/ ~n2.ok THEN ErrorStr
    ELSE IF op \notin {"+", "-", "×", "÷"} THEN ErrorStr
    ELSE IF op = "÷" /\ IsZero(n2.v) THEN ErrorStr
    ELSE FormatResult(FloatOp(IF op = "-" THEN "+" ELSE op, n1.v,
                              IF op = "-" THEN DNeg(n2.v) ELSE n2.v))

Calculate(num1, op, num2) == CalculateFloats(PyFloat(num1), op, PyFloat(num2))

(***************************************************************************)
(* The calculator panel: setup_buttons and detect_button_touch.  A button  *)
(* text is a TLA+ string; None stands for Python's None.                   *)
(***************************************************************************)
None == "None"

button_layout ==
    << <<"C", "±", "%", "÷">>,
       <<"7", "8", "9", "×">>,
       <<"4", "5", "6", "-">>,
       <<"1", "2", "3", "+">>,
       <<"0", ".", "=", "del">> >>

ButtonTexts == {button_layout[r][c] : r \in 1..5, c \in 1..4}

Operators == {"+", "-", "×", "÷"}

\* The characters of a button text as a Python string.
ButtonChars(button_text) ==
    IF button_text = "del" THEN <<"d", "e", "l">> ELSE <<button_text>>

FrameWidth == 1280

FrameHeight == 720

PanelWidth == 400

ButtonWidth == 80

ButtonHeight == 60

ButtonMargin == 8

StartY == 200

\* The row and column (from 0) of a button text in button_layout.
RowIdx(button_text) == (CHOOSE r \in 1..5 : \E c \in 1..4 : button_layout[r][c] = button_text) - 1

ColIdx(button_text) == (CHOOSE c \in 1..4 : \E r \in 1..5 : button_layout[r][c] = button_text) - 1

\* self.buttons as setup_buttons fills it: the hit rectangle (x1, y1, x2, y2)
\* and the center of every button.
setup_buttons(frame_width, frame_height) ==
    [button_text \in ButtonTexts |->
        LET start_x == (frame_width - PanelWidth) + 20
            x       == start_x + ColIdx(button_text) * (ButtonWidth + ButtonMargin)
            y       == StartY + RowIdx(button_text) * (ButtonHeight + ButtonMargin)
            width   == IF button_text = "0" THEN ButtonWidth * 2 + ButtonMargin
                                            ELSE ButtonWidth
        IN  [rect   |-> <<x, y, x + width, y + ButtonHeight>>,
             center |-> <<x + width \div 2, y + ButtonHeight \div 2>>]]

\* The order in which Python iterates self.buttons: the order of insertion.
ButtonOrder(btns) ==
    IF DOMAIN btns = {} THEN <<>>
    ELSE [i \in 1..20 |-> button_layout[(i - 1) \div 4 + 1][((i - 1) % 4) + 1]]

is_point_in_rect(point, rect) ==
    /\ rect[1] <= point[1] /\ point[1] <= rect[3]
    /\ rect[2] <= point[2] /\ point[2] <= rect[4]

\* The square of calculate_distance: the distances are compared with each
\* other and with the threshold, and squaring keeps their order.
DistanceSq(point1, point2) ==
    (point1[1] - point2[1]) * (point1[1] - point2[1])
        + (point1[2] - point2[2]) * (point1[2] - point2[2])

TouchThreshold == 30

\* One iteration of the loop of detect_button_touch.
TouchesCloser(btns, finger_pos, button_text, touched_button, min_sq) ==
    /\ is_point_in_rect(finger_pos, btns[button_text].rect)
    /\ DistanceSq(finger_pos, btns[button_text].center) < TouchThreshold * TouchThreshold
    /\ (touched_button = None \/ DistanceSq(finger_pos, btns[button_text].center) < min_sq)

RECURSIVE DetectFrom(_, _, _, _, _, _)
DetectFrom(btns, order, i, finger_pos, touched_button, min_sq) ==
    IF i > Len(order) THEN touched_button
    ELSE IF TouchesCloser(btns, finger_pos, order[i], touched_button, min_sq)
    THEN DetectFrom(btns, order, i + 1, finger_pos, order[i],
                    DistanceSq(finger_pos, btns[order[i]].center))
    ELSE DetectFrom(btns, order, i + 1, finger_pos, touched_button, min_sq)

\* A sample of the camera: whether a hand is seen, where its index finger
\* tip is, and whether it makes the touching gesture.
NoHand == [hand |-> FALSE, pos |-> <<0, 0>>, touching |-> FALSE]

detect_button_touch(btns, sample) ==
    IF ~sample.hand THEN None
    ELSE DetectFrom(btns, ButtonOrder(btns), 1, sample.pos, None, 0)

(***************************************************************************)
(* The calculator object.  Strings are sequences of characters; operation  *)
(* is "" or the text of an operator button.  The fields printed and        *)
(* appended are not fields of the object: they carry what one call of      *)
(* process_button_press printed at line 199 and appended to the history    *)
(* at line 254.                                                            *)
(*                                                                         *)
(* Time is counted in ticks of an eighth of a second: time.time() returns  *)
(* a binary float, and the clock of the model reads multiples of 0.125 s,  *)
(* which such floats hold exactly, as they hold the difference of two of   *)
(* them (also for readings as large as the time since 1970).               *)
(* touch_cooldown is 0.3 s, written as TouchCooldown tenths of a second.   *)
(***************************************************************************)
TicksPerSecond == 8

TouchCooldown == 3

MaxDisplayLen == 12

MaxHistory == 10

Space == <<" ">>

\* sub in s
Contains(s, sub) ==
    \E i \in 1..(Len(s) - Len(sub) + 1) : SubSeq(s, i, i + Len(sub) - 1) = sub

\* A cooldown one tick too short.
CooldownElapsedEarly(last_time, current_time) ==
    ~((current_time - last_time + 1) * 10 < TouchCooldown * TicksPerSecond)

\* A cooldown one tick too long.
CooldownElapsedLate(last_time, current_time) ==
    ~((current_time - last_time - 1) * 10 < TouchCooldown * TicksPerSecond)

\* Lines 196-197, negated: current_time - self.last_touch_time <
\* self.touch_cooldown, for times in ticks.  The float difference of the
\* two readings is exact, d / 8 s for d ticks, and it is compared with the
\* float nearest to 0.3, which is a little less than 3/10; no multiple of
\* 1/8 lies between the two, so d / 8 is less than the float exactly when
\* d * 10 < 3 * 8.
CooldownElapsed(last_time, current_time) ==
    ~((current_time - last_time) * 10 < TouchCooldown * TicksPerSecond)

\* The least number of ticks that is not less than touch_cooldown.
CooldownTicks ==
    CHOOSE d \in 1..TicksPerSecond :
        /\ d * 10 >= TouchCooldown * TicksPerSecond
        /\ (d - 1) * 10 < TouchCooldown * TicksPerSecond

\* Digit entry that stops one character before the limit.
PressDigitShort(self, button_text) ==
    IF self.just_calculated
    THEN [self EXCEPT !.display = <<button_text>>,
                      !.current_number = <<button_text>>,
                      !.just_calculated = FALSE]
    ELSE LET shown == IF self.display = <<"0">> \/ Contains(self.display, ErrorStr)
                      THEN <<button_text>>
                      ELSE IF Len(self.display) < MaxDisplayLen - 1
                      THEN self.display \o <<button_text>>
                      ELSE self.display
         IN  [self EXCEPT !.display = shown, !.current_number = shown]

\* button_text.isdigit()
PressDigit(self, button_text) ==
    IF self.just_calculated
    THEN [self EXCEPT !.display = <<button_text>>,
                      !.current_number = <<button_text>>,
                      !.just_calculated = FALSE]
    ELSE LET shown == IF self.display = <<"0">> \/ Contains(self.display, ErrorStr)
                      THEN <<button_text>>
                      ELSE IF Len(self.display) < MaxDisplayLen
                      THEN self.display \o <<button_text>>
                      ELSE self.display
         IN  [self EXCEPT !.display = shown, !.current_number = shown]

\* button_text == '.'
PressPoint(self) ==
    IF ~Contains(self.display, <<".">>) /\ ~self.just_calculated
    THEN LET shown == IF self.display = <<"0">> THEN <<"0", ".">>
                                                ELSE self.display \o <<".">>
         IN  [self EXCEPT !.display = shown, !.current_number = shown]
    ELSE self

\* A chained operation that takes the new operator even when it fails.
ChainResultTakingOperator(self, button_text, result) ==
    IF ~Contains(result, ErrorStr)
    THEN [self EXCEPT !.previous_number = result,
                      !.display = result,
                      !.operation = button_text,
                      !.current_number = <<>>,
                      !.just_calculated = FALSE]
    ELSE [self EXCEPT !.display = result, !.operation = button_text]

\* Lines 234-240: the result of a chained operation becomes the first
\* operand; an error is only shown, and the call returns.
ChainResult(self, button_text, result) ==
    IF ~Contains(result, ErrorStr)
    THEN [self EXCEPT !.previous_number = result,
                      !.display = result,
                      !.operation = button_text,
                      !.current_number = <<>>,
                      !.just_calculated = FALSE]
    ELSE [self EXCEPT !.display = result]

\* An operator that leaves just_calculated as it is when it takes the
\* current number as the first operand.
PressOperatorKeepingFlag(self, button_text) ==
    IF self.current_number = <<>> THEN self
    ELSE IF self.operation # "" /\ self.previous_number # <<>>
    THEN ChainResult(self, button_text,
                     Calculate(self.previous_number, self.operation, self.current_number))
    ELSE [self EXCEPT !.previous_number = self.current_number,
                      !.operation = button_text,
                      !.current_number = <<>>]

\* An operator that replaces the pending one when no number was entered.
PressOperatorReplacing(self, button_text) ==
    IF self.current_number = <<>>
    THEN [self EXCEPT !.operation = IF @ = "" THEN @ ELSE button_text]
    ELSE IF self.operation # "" /\ self.previous_number # <<>>
    THEN ChainResult(self, button_text,
                     Calculate(self.previous_number, self.operation, self.current_number))
    ELSE [self EXCEPT !.previous_number = self.current_number,
                      !.operation = button_text,
                      !.current_number = <<>>,
                      !.just_calculated = FALSE]

\* button_text in ['+', '-', '×', '÷']
PressOperator(self, button_text) ==
    IF self.current_number = <<>> THEN self
    ELSE IF self.operation # "" /\ self.previous_number # <<>>
    THEN ChainResult(self, button_text,
                     Calculate(self.previous_number, self.operation, self.current_number))
    ELSE [self EXCEPT !.previous_number = self.current_number,
                      !.operation = button_text,
                      !.current_number = <<>>,
                      !.just_calculated = FALSE]

\* f"{previous_number} {operation} {current_number} = {result}"
HistoryEntry(num1, op, num2, result) ==
    num1 \o Space \o <<op>> \o Space \o num2 \o Space \o <<"=">> \o Space \o result

\* A history that drops its newest entry when more than 10 are held.
AppendHistoryDropNewest(hist, entry) ==
    LET h == Append(hist, entry)
    IN  IF Len(h) > MaxHistory THEN SubSeq(h, 1, MaxHistory) ELSE h

\* self.history.append(entry), then pop(0) when more than 10 are held.
AppendHistory(hist, entry) ==
    LET h == Append(hist, entry)
    IN  IF Len(h) > MaxHistory THEN Tail(h) ELSE h

\* An evaluation that keeps the error marker as the current number.
EqualsResultKeepingError(self, result, entry) ==
    [self EXCEPT !.history = AppendHistory(self.history, entry),
                 !.appended = entry,
                 !.display = result,
                 !.current_number = result,
                 !.previous_number = <<>>,
                 !.operation = "",
                 !.just_calculated = TRUE]

\* An evaluation that leaves the operator pending.
EqualsResultKeepingOperator(self, result, entry) ==
    [self EXCEPT !.history = AppendHistory(self.history, entry),
                 !.appended = entry,
                 !.display = result,
                 !.current_number = IF ~Contains(result, ErrorStr) THEN result ELSE <<>>,
                 !.previous_number = <<>>,
                 !.just_calculated = TRUE]

\* Lines 252-262: the entry is recorded and the result shown.
EqualsResult(self, result, entry) ==
    [self EXCEPT !.history = AppendHistory(self.history, entry),
                 !.appended = entry,
                 !.display = result,
                 !.current_number = IF ~Contains(result, ErrorStr) THEN result ELSE <<>>,
                 !.previous_number = <<>>,
                 !.operation = "",
                 !.just_calculated = TRUE]

EqualsOf(self, result) ==
    EqualsResult(self, result,
                 HistoryEntry(self.previous_number, self.operation,
                              self.current_number, result))

\* button_text == '='
PressEquals(self) ==
    IF self.current_number # <<>> /\ self.operation # "" /\ self.previous_number # <<>>
    THEN EqualsOf(self, Calculate(self.previous_number, self.operation, self.current_number))
    ELSE self

\* A reset that leaves just_calculated as it is.
PressClearKeepingFlag(self) ==
    [self EXCEPT !.current_number = <<>>,
                 !.previous_number = <<>>,
                 !.operation = "",
                 !.display = <<"0">>]

\* A reset that empties the history as well.
PressClearEmptyingHistory(self) ==
    [self EXCEPT !.current_number = <<>>,
                 !.previous_number = <<>>,
                 !.operation = "",
                 !.display = <<"0">>,
                 !.just_calculated = FALSE,
                 !.history = <<>>]

\* button_text == 'C'
PressClear(self) ==
    [self EXCEPT !.current_number = <<>>,
                 !.previous_number = <<>>,
                 !.operation = "",
                 !.display = <<"0">>,
                 !.just_calculated = FALSE]

\* button_text == 'del'
PressDel(self) ==
    IF ~self.just_calculated /\ Len(self.display) > 1
    THEN LET shown == SubSeq(self.display, 1, Len(self.display) - 1)
         IN  [self EXCEPT !.display = shown, !.current_number = shown]
    ELSE IF Len(self.display) = 1
    THEN [self EXCEPT !.display = <<"0">>, !.current_number = <<>>]
    ELSE self

\* button_text == '±'
PressNegate(self) ==
    IF self.current_number # <<>> /\ self.current_number # <<"0">>
    THEN LET flipped == IF self.current_number[1] = "-"
                        THEN Tail(self.current_number)
                        ELSE <<"-">> \o self.current_number
         IN  [self EXCEPT !.current_number = flipped, !.display = flipped]
    ELSE self

\* Lines 290-294: str(float(current_number) / 100), "Error" when float()
\* raises.
PercentOf(self, f) ==
    IF f.ok THEN LET shown == FloatStr(f.v)
                 IN  [self EXCEPT !.display = shown, !.current_number = shown]
    ELSE [self EXCEPT !.display = ErrorStr]

Hundredth(f) ==
    IF f.ok THEN [f EXCEPT !.v = FloatOp("÷", f.v, DecimalToDouble(FALSE, <<"1", "0", "0">>, 0))]
    ELSE f

\* button_text == '%'
PressPercent(self) ==
    IF self.current_number # <<>>
    THEN PercentOf(self, Hundredth(PyFloat(self.current_number)))
    ELSE self

\* The branch of process_button_press that the button text selects.
PressBranch(self, button_text) ==
    IF button_text \in DigitSet THEN PressDigit(self, button_text)
    ELSE IF button_text = "." THEN PressPoint(self)
    ELSE IF button_text \in Operators THEN PressOperator(self, button_text)
    ELSE IF button_text = "=" THEN PressEquals(self)
    ELSE IF button_text = "C" THEN PressClear(self)
    ELSE IF button_text = "del" THEN PressDel(self)
    ELSE IF button_text = "±" THEN PressNegate(self)
    ELSE IF button_text = "%" THEN PressPercent(self)
    ELSE self

\* A call that starts the cooldown anew when it is refused.
ProcessButtonPressRestarting(self, btns, button_text, current_time) ==
    IF ~CooldownElapsed(self.last_touch_time, current_time)
    THEN [self EXCEPT !.last_touch_time = current_time]
    ELSE LET marked == [self EXCEPT !.printed = button_text,
                                    !.button_pressed =
                                        IF button_text \in DOMAIN btns THEN button_text
                                                                       ELSE @]
         IN  [PressBranch(marked, button_text) EXCEPT !.last_touch_time = current_time]

\* process_button_press(button_text) called at time current_time while
\* self.buttons is btns.  Every path past the cooldown check ends by
\* setting last_touch_time (lines 239 and 296).
process_button_press(self, btns, button_text, current_time) ==
    IF ~CooldownElapsed(self.last_touch_time, current_time) THEN self
    ELSE LET marked == [self EXCEPT !.printed = button_text,
                                    !.button_pressed =
                                        IF button_text \in DOMAIN btns THEN button_text
                                                                       ELSE @]
         IN  [PressBranch(marked, button_text) EXCEPT !.last_touch_time = current_time]

(***************************************************************************)
(* The state: the fields of the calculator object, the clock, the place    *)
(* of the main loop in its iteration (pc is "closed" once the loop has     *)
(* ended) and the locals finger_pos (<<>> for None), touching and          *)
(* touched_button of run, which keep their values until the next           *)
(* iteration assigns them.  trace, last_printed and log observe the run:   *)
(* the buttons printed at line 199 since the calculator was last reset,    *)
(* the time and the text of the last print, and the entries appended to    *)
(* the history since it was last cleared.  The theme, the instruction      *)
(* panel and the hover and pressed marks only change what is drawn; they   *)
(* are left out.                                                           *)
(***************************************************************************)
VARIABLES display, current_number, previous_number, operation, history,
          just_calculated, last_touch_time, button_pressed, buttons,
          now, pc, finger_pos, touching, touched_button, trace, last_printed, log

vars == <<display, current_number, previous_number, operation, history,
          just_calculated, last_touch_time, button_pressed, buttons,
          now, pc, finger_pos, touching, touched_button, trace, last_printed, log>>

\* The fields a call of process_button_press reads and writes.
Self ==
    [display |-> display, current_number |-> current_number,
     previous_number |-> previous_number, operation |-> operation,
     history |-> history, just_calculated |-> just_calculated,
     last_touch_time |-> last_touch_time, button_pressed |-> button_pressed,
     printed |-> None, appended |-> <<>>]

\* The clock when the object is built: time.time() is far above the
\* cooldown, so that the first touch is never inside it.
StartTime == CooldownTicks

\* __init__; self.buttons is empty until the interface is first drawn.
Init ==
    /\ display = <<"0">>
    /\ current_number = <<>>
    /\ previous_number = <<>>
    /\ operation = ""
    /\ history = <<>>
    /\ just_calculated = FALSE
    /\ last_touch_time = 0
    /\ button_pressed = None
    /\ buttons = <<>>
    /\ now = StartTime
    /\ pc = "sample"
    /\ finger_pos = <<>>
    /\ touching = FALSE
    /\ touched_button = None
    /\ trace = <<>>
    /\ last_printed = <<>>
    /\ log = <<>>

Overflow == <<"...">>

\* The trace after a call that printed the button text (or None): it starts
\* again at a C, and holds at most cap presses.
Traced(old, printed, cap) ==
    IF printed = None THEN old
    ELSE IF printed = "C" THEN <<>>
    ELSE IF old = Overflow \/ Len(old) >= cap THEN Overflow
    ELSE Append(old, printed)

\* The new values of the fields and of the observers after a call that
\* returned the fields r; kept is what stays of the log.
Store(r, cap, kept) ==
    /\ display' = r.display
    /\ current_number' = r.current_number
    /\ previous_number' = r.previous_number
    /\ operation' = r.operation
    /\ history' = r.history
    /\ just_calculated' = r.just_calculated
    /\ last_touch_time' = r.last_touch_time
    /\ button_pressed' = r.button_pressed
    /\ trace' = Traced(trace, r.printed, cap)
    /\ last_printed' = IF r.printed = None THEN last_printed ELSE <<now', r.printed>>
    /\ log' = IF r.appended = <<>> THEN kept ELSE Append(kept, r.appended)

\* Lines 520-557: the next frame, of the size frame = <<w, h>>, arrives dt
\* later, the button under the finger is found and pressed if the gesture
\* is made, and the interface is drawn, which sets the buttons up for the
\* size of this frame the first time.
ProcessSample(dt, sample, frame, env) ==
    /\ pc = "sample"
    /\ now + dt <= env.horizon
    /\ now' = now + dt
    /\ \E touched \in {detect_button_touch(buttons, sample)} :
          /\ finger_pos' = IF sample.hand THEN sample.pos ELSE <<>>
          /\ touching' = sample.touching
          /\ touched_button' = touched
          /\ \E r \in {IF sample.touching /\ touched # None
                        THEN process_button_press(Self, buttons, touched, now + dt)
                        ELSE Self} : Store(r, env.cap, log)
    /\ buttons' = IF DOMAIN buttons = {} THEN setup_buttons(frame[1], frame[2])
                                         ELSE buttons
    /\ pc' = "key"

\* Lines 576-586: the key that waitKey returns, wait after the frame was
\* taken.  c or C presses C at that time, r or R empties the history, q or
\* Q ends the loop, any other key ("") leaves the calculator alone.  The
\* locals of run stay as they are.
HandleKey(wait, key, env) ==
    /\ pc = "key"
    /\ now + wait <= env.horizon
    /\ now' = now + wait
    /\ UNCHANGED <<buttons, finger_pos, touching, touched_button>>
    /\ \E r \in {IF key \in {"c", "C"}
                  THEN process_button_press(Self, buttons, "C", now + wait)
                  ELSE IF key \in {"r", "R"} THEN [Self EXCEPT !.history = <<>>]
                  ELSE Self} : Store(r, env.cap, IF key \in {"r", "R"} THEN <<>> ELSE log)
    /\ pc' = IF key \in {"q", "Q"} THEN "closed" ELSE "sample"

\* Lines 513-515 and 521-522: the camera is not open, or delivers no
\* frame; the loop is over and the calculator stays as it is.
ReadFails ==
    /\ pc = "sample"
    /\ pc' = "closed"
    /\ UNCHANGED <<display, current_number, previous_number, operation, history,
                   just_calculated, last_touch_time, button_pressed, buttons, now,
                   finger_pos, touching, touched_button, trace, last_printed, log>>

\* The finger tip is int(x * w), int(y * h) of a landmark that may lie on
\* or beyond the edge of the frame: any point may come with any frame.
NextIn(env) ==
    \/ \E dt \in env.dts, frame \in env.frames, sample \in env.samples :
          ProcessSample(dt, sample, frame, env)
    \/ \E wait \in env.waits, key \in env.keys : HandleKey(wait, key, env)
    \/ ReadFails

(***************************************************************************)
(* The specifications.  Each names the samples the camera may deliver (the *)
(* finger tip on the center of a button or outside the panel, with or      *)
(* without the touching gesture, or no hand), the distances in time of     *)
(* the frames, the keys that may be struck, the horizon at which the clock *)
(* stops and the number of presses the trace holds, the sizes of the       *)
(* frames the camera delivers and the time waitKey may take.               *)
(***************************************************************************)
\* The frame size that run asks the camera for.
CameraFrame == <<FrameWidth, FrameHeight>>

\* A camera that does not grant it delivers its own size.
SmallFrame == <<640, 480>>

Center(button_text) == setup_buttons(FrameWidth, FrameHeight)[button_text].center

Outside == <<100, 100>>

\* A hand whose finger tip is on the center of one of the buttons.
Hands(texts, gestures) ==
    {[hand |-> TRUE, pos |-> Center(b), touching |-> t] : b \in texts, t \in gestures}

Away == {NoHand, [hand |-> TRUE, pos |-> Outside, touching |-> TRUE]}

Horizon == 18

TraceCap == 4

\* All kinds of buttons, four presses deep; a finger that points at a
\* button without the touching gesture is on 7 or on = .
Env ==
    [samples |-> Hands({"0", "3", "7", ".", "+", "÷", "=", "C", "del", "±", "%"}, {TRUE})
                     \cup Hands({"7", "="}, {FALSE}) \cup Away,
     dts     |-> {CooldownTicks},
     keys    |-> {"", "c", "r"},
     horizon |-> Horizon,
     cap     |-> TraceCap,
     frames  |-> {CameraFrame},
     waits   |-> {0}]

Next == NextIn(Env)

Spec == Init /\ [][Next]_vars

TimingHorizon == 12

\* Frames 0.125, 0.25 and 0.375 s apart, of which only the last distance
\* is not less than the cooldown; a key comes with the frame or 0.125 s
\* after it.
TimingEnv ==
    [samples |-> Hands({"7", "="}, BOOLEAN) \cup Away,
     dts     |-> 1..CooldownTicks,
     keys    |-> {"", "c", "q"},
     horizon |-> TimingHorizon,
     cap     |-> TraceCap,
     frames  |-> {CameraFrame},
     waits   |-> {0, 1}]

NextTiming == NextIn(TimingEnv)

SpecTiming == Init /\ [][NextTiming]_vars

DigitsHorizon == 42

\* Twelve digits in a row.
DigitsEnv ==
    [samples |-> Hands({"0", "5"}, {TRUE}),
     dts     |-> {CooldownTicks},
     keys    |-> {""},
     horizon |-> DigitsHorizon,
     cap     |-> MaxDisplayLen,
     frames  |-> {CameraFrame},
     waits   |-> {0}]

NextDigits == NextIn(DigitsEnv)

SpecDigits == Init /\ [][NextDigits]_vars

HistoryHorizon == 111

\* Eleven evaluations in a row, of two kinds.
HistoryEnv ==
    [samples |-> Hands({"0", "+", "÷", "="}, {TRUE}),
     dts     |-> {CooldownTicks},
     keys    |-> {""},
     horizon |-> HistoryHorizon,
     cap     |-> 0,
     frames  |-> {CameraFrame},
     waits   |-> {0}]

NextHistory == NextIn(HistoryEnv)

SpecHistory == Init /\ [][NextHistory]_vars

ClearHorizon == 24

\* Six presses deep: an evaluation, the C after it and what follows.
ClearEnv ==
    [samples |-> Hands({"0", "7", "÷", "=", "C", "±", "del"}, {TRUE}) \cup Away,
     dts     |-> {CooldownTicks},
     keys    |-> {"", "c"},
     horizon |-> ClearHorizon,
     cap     |-> TraceCap,
     frames  |-> {CameraFrame},
     waits   |-> {0}]

NextClear == NextIn(ClearEnv)

SpecClear == Init /\ [][NextClear]_vars

TouchHorizon == 12

\* Finger tips at and around the touch threshold of the button 7, in its
\* corner, in the part of the button 0 that the button . covers, and
\* outside the panel; and, for the panel of the small frame, at the touch
\* threshold of the button 7, on the lowest line of the frame, which
\* crosses the buttons 0 and . , and on and below the lower edge of the
\* frame (landmarks 1.0 and 1.02).
TouchPoints ==
    {<<969, 298>>, <<970, 298>>, <<971, 298>>, <<958, 322>>, <<900, 268>>,
     <<998, 502>>, <<1000, 502>>, <<1006, 502>>, <<1010, 502>>, <<1014, 502>>,
     <<329, 298>>, <<330, 298>>, <<350, 479>>, <<380, 479>>, <<388, 480>>, <<344, 489>>,
     Outside}

TouchEnv ==
    [samples |-> {[hand |-> TRUE, pos |-> p, touching |-> t] :
                      p \in TouchPoints, t \in BOOLEAN} \cup {NoHand},
     dts     |-> {CooldownTicks},
     keys    |-> {""},
     horizon |-> TouchHorizon,
     cap     |-> TraceCap,
     frames  |-> {CameraFrame, SmallFrame},
     waits   |-> {0}]

NextTouch == NextIn(TouchEnv)

SpecTouch == Init /\ [][NextTouch]_vars

CapHorizon == 48

\* Fourteen presses: twelve digits, an operator and one digit more.
CapEnv ==
    [samples |-> Hands({"5", "+"}, {TRUE}),
     dts     |-> {CooldownTicks},
     keys    |-> {""},
     horizon |-> CapHorizon,
     cap     |-> 0,
     frames  |-> {CameraFrame},
     waits   |-> {0}]

NextCap == NextIn(CapEnv)

SpecCap == Init /\ [][NextCap]_vars

LogHorizon == 27

\* Seven presses deep, on buttons of every kind and with the key r: an
\* evaluation, and what is pressed and struck while its entry is in the
\* history, up to a second operator that evaluates a pending operation.
LogEnv ==
    [samples |-> Hands({"7", ".", "+", "=", "C", "del", "±", "%"}, {TRUE}),
     dts     |-> {CooldownTicks},
     keys    |-> {"", "r"},
     horizon |-> LogHorizon,
     cap     |-> 0,
     frames  |-> {CameraFrame},
     waits   |-> {0}]

NextLog == NextIn(LogEnv)

SpecLog == Init /\ [][NextLog]_vars

(***************************************************************************)
(* calculate called on its own: the operands and the operator are drawn    *)
(* when the call is made and the result is returned into the display.      *)
(***************************************************************************)
ZeroOperands == {<<"0">>, <<"0", ".">>, <<"0", ".", "0">>, <<"-", "0">>}

\* Strings that float() reads.
NumericOperands ==
    ZeroOperands \cup
    {<<"7">>, <<"-", "7", "3">>, <<"0", ".", "5">>, <<".", "5">>, <<"5", ".">>,
     <<"1", ".", "0", "0", "e", "+", "1", "0">>, <<"i", "n", "f">>, <<"n", "a", "n">>}

\* Strings at which float() raises.
OtherOperands ==
    {<<>>, <<"-">>, <<".">>, ErrorStr, ErrorStr \o <<".">>, <<"-", ".">>,
     <<"1", ".", "0", "0", "e", "+">>}

OtherOperators == {"", "%", "="}

InitCalculate ==
    /\ display = <<"0">>
    /\ current_number \in NumericOperands \cup OtherOperands
    /\ previous_number \in NumericOperands \cup OtherOperands
    /\ operation \in Operators \cup OtherOperators
    /\ history = <<>>
    /\ just_calculated = FALSE
    /\ last_touch_time = 0
    /\ button_pressed = None
    /\ buttons = <<>>
    /\ now = StartTime
    /\ pc = "call"
    /\ finger_pos = <<>>
    /\ touching = FALSE
    /\ touched_button = None
    /\ trace = <<>>
    /\ last_printed = <<>>
    /\ log = <<>>

\* result = self.calculate(previous_number, operation, current_number)
CallCalculate ==
    /\ pc = "call"
    /\ display' = Calculate(previous_number, operation, current_number)
    /\ pc' = "return"
    /\ UNCHANGED <<current_number, previous_number, operation, history,
                   just_calculated, last_touch_time, button_pressed, buttons, now,
                   finger_pos, touching, touched_button, trace, last_printed, log>>

NextCalculate == CallCalculate

SpecCalculate == InitCalculate /\ [][NextCalculate]_vars

(***************************************************************************)
(* The properties.                                                         *)
(***************************************************************************)

\* The step is an iteration of the loop that read a frame.
FrameRead == pc = "sample" /\ pc' = "key"

\* The step is a call of process_button_press with the text b that passed
\* the cooldown check.
Accepted(b) == last_printed' # last_printed /\ last_printed'[2] = b

\* The last n elements of s, all of them if there are fewer.
LastN(s, n) == IF Len(s) <= n THEN s ELSE SubSeq(s, Len(s) - n + 1, Len(s))

\* The entry a, op, b, = should record, and the display it should leave.
ExpectedEntry(a, op, b) ==
    HistoryEntry(<<a>>, op, <<b>>, Calculate(<<a>>, op, <<b>>))

\* C1: after the presses a, op, b, = from the reset state (a and b digits,
\* op an operator) the last entry of the history is "a op b = result" with
\* result = calculate(a, op, b), the display is that result and
\* just_calculated is true.
C1_SecondOperandAsEntered ==
    (/\ Len(trace) = 4
     /\ trace[1] \in DigitSet
     /\ trace[2] \in Operators
     /\ trace[3] \in DigitSet
     /\ trace[4] = "=")
    => /\ history # <<>>
       /\ history[Len(history)] = ExpectedEntry(trace[1], trace[2], trace[3])
       /\ display = Calculate(<<trace[1]>>, trace[2], <<trace[3]>>)
       /\ just_calculated

\* digits with at most one decimal point, at least one digit.
IsUnsigned(s) ==
    /\ \A i \in 1..Len(s) : IsDigit(s[i]) \/ s[i] = "."
    /\ \E i \in 1..Len(s) : IsDigit(s[i])
    /\ \A i, j \in 1..Len(s) : (s[i] = "." /\ s[j] = ".") => i = j

IsNumeral(s) ==
    /\ s # <<>>
    /\ IsUnsigned(IF s[1] = "-" THEN Tail(s) ELSE s)

\* d.dde+XX or d.dde-XX with at least two digits of exponent.
IsUnsignedSci(s) ==
    /\ Len(s) >= 8
    /\ IsDigit(s[1]) /\ s[2] = "." /\ IsDigit(s[3]) /\ IsDigit(s[4])
    /\ s[5] = "e"
    /\ s[6] \in {"+", "-"}
    /\ \A i \in 7..Len(s) : IsDigit(s[i])

IsScientific(s) ==
    /\ s # <<>>
    /\ IsUnsignedSci(IF s[1] = "-" THEN Tail(s) ELSE s)

\* C2: in every reachable state the display is not empty and is a numeral
\* (digits with at most one decimal point and an optional leading minus),
\* the error marker, or the scientific form calculate produces.
C2_DisplayWellFormed ==
    /\ display # <<>>
    /\ IsNumeral(display) \/ display = ErrorStr \/ IsScientific(display)

\* float(s) == 0
IsNumericZero(s) == PyFloat(s).ok /\ IsZero(PyFloat(s).v)

\* C3: when = is consumed with a pending division and a current number
\* that is numerically zero, the display becomes the error marker, the
\* previous number and the operation are cleared and the history is left
\* as it was.
C3_DivisionByZeroNotRecorded ==
    [][(/\ Accepted("=")
        /\ operation = "÷"
        /\ previous_number # <<>>
        /\ current_number # <<>>
        /\ IsNumericZero(current_number))
       => /\ display' = ErrorStr
          /\ previous_number' = <<>>
          /\ operation' = ""
          /\ history' = history]_vars

\* The digits with the zeros in front dropped, the last digit kept.
RECURSIVE DropLeadingZeros(_)

DropLeadingZeros(digits) ==
    IF Len(digits) > 1 /\ digits[1] = "0"
    THEN DropLeadingZeros(Tail(digits))
    ELSE digits

\* The original wording of C4: after the digits of the trace were pressed
\* from the reset state, the display is exactly those digits in order and
\* current_number is the display.
C4_DisplayIsConcatenation ==
    (trace # <<>> /\ trace # Overflow /\ \A i \in 1..Len(trace) : IsDigit(trace[i]))
    => /\ display = trace
       /\ current_number = display

\* C4: after one to twelve digits were pressed from the reset state, the
\* display is those digits in order without the zeros in front of them (a
\* single "0" when all are zeros), and current_number is the display.
C4_DisplayIsDigitsEntered ==
    (trace # <<>> /\ trace # Overflow /\ \A i \in 1..Len(trace) : IsDigit(trace[i]))
    => /\ display = DropLeadingZeros(trace)
       /\ current_number = display

\* Twelve digits were pressed, the first of them a zero that was replaced.
C4_TwelveDigitsEntered ==
    /\ Len(trace) = MaxDisplayLen
    /\ trace[1] = "0"
    /\ trace[2] = "5"
    /\ Len(display) = MaxDisplayLen - 1
    /\ current_number = display

\* The ticks are not less than touch_cooldown, 0.3 s.
CooledDown(ticks) == ticks * 10 >= TouchCooldown * TicksPerSecond

\* C5: two presses that pass the cooldown check are at least touch_cooldown
\* apart, whatever the buttons and whatever the rate of the frames.
C5_AcceptedPressesApart ==
    [][(last_printed' # last_printed /\ last_printed # <<>>)
       => CooledDown(last_printed'[1] - last_printed[1])]_vars

\* Two different buttons were pressed one after the other, the second just
\* now, while frames came more often than the cooldown allows presses.
C5_SecondPressAccepted ==
    /\ Len(trace) = 2
    /\ trace[1] # trace[2]
    /\ last_printed = <<now, trace[2]>>
    /\ now < StartTime + 3 * CooldownTicks

\* C6: in the frame of a sample the button under the finger is pressed
\* (the press passes the cooldown check) exactly when the touching gesture
\* is made, a button is touched and now - last_touch_time is at least
\* touch_cooldown; and a press that passes sets last_touch_time to now,
\* also when it changes nothing in the calculator.
C6_PressedIffTouchingAndCooledDown ==
    [][FrameRead
       => /\ (last_printed' # last_printed)
              <=> (/\ touching'
                   /\ touched_button' # None
                   /\ CooledDown(now' - last_touch_time))
          /\ (last_printed' # last_printed)
              => (last_touch_time' = now' /\ last_printed' = <<now', touched_button'>>)]_vars

\* An = that found nothing to evaluate has just passed the cooldown check.
C6_NoOpPressTimed ==
    /\ pc = "key"
    /\ last_printed = <<now, "=">>
    /\ last_touch_time = now
    /\ trace = <<"=">>
    /\ display = <<"0">>
    /\ history = <<>>

\* C7: the history never holds more than ten entries, and it holds the
\* last ten entries appended, in the order in which they were appended:
\* after eleven evaluations, the second to the eleventh.
C7_HistoryKeepsLastTen ==
    /\ Len(history) <= MaxHistory
    /\ history = LastN(log, MaxHistory)

\* Eleven entries were appended, the first unlike the last, and the first
\* is gone.
C7_EleventhEntryAppended ==
    /\ Len(log) = MaxHistory + 1
    /\ log[1] # log[MaxHistory + 1]
    /\ history = SubSeq(log, 2, MaxHistory + 1)

\* The state = must leave when it evaluates to result and records entry.
EvaluatedTo(result, entry) ==
    /\ display' = result
    /\ current_number' = IF result = ErrorStr THEN <<>> ELSE result
    /\ previous_number' = <<>>
    /\ operation' = ""
    /\ just_calculated'
    /\ log' = Append(log, entry)
    /\ history' = LastN(Append(history, entry), MaxHistory)

\* C8: when = is consumed with current_number, operation and
\* previous_number all set, the display becomes the result of calculate on
\* them, current_number the result (empty if it is the error marker),
\* previous_number and operation are cleared, just_calculated is set and
\* the one entry "previous operation current = result" is appended to the
\* history.
C8_EqualsEvaluatesAndRecords ==
    [][(/\ Accepted("=")
        /\ current_number # <<>>
        /\ operation # ""
        /\ previous_number # <<>>)
       => \E result \in {Calculate(previous_number, operation, current_number)} :
             EvaluatedTo(result,
                         HistoryEntry(previous_number, operation, current_number, result))]_vars

\* An = has just evaluated a division by zero and recorded it.
C8_ErrorEvaluated ==
    /\ last_printed = <<now, "=">>
    /\ display = ErrorStr
    /\ current_number = <<>>
    /\ just_calculated
    /\ Len(history) = 1

\* C9: a C that passes the cooldown check leaves the display "0",
\* current_number, previous_number and operation empty and just_calculated
\* false, whatever the state before it, and leaves the history as it was.
C9_ClearResets ==
    [][Accepted("C")
       => /\ display' = <<"0">>
          /\ current_number' = <<>>
          /\ previous_number' = <<>>
          /\ operation' = ""
          /\ ~just_calculated'
          /\ history' = history]_vars

\* C has just been pressed after a division by zero was evaluated.
C9_ClearedAfterError ==
    /\ last_printed = <<now, "C">>
    /\ history # <<>>
    /\ Contains(history[Len(history)], ErrorStr)
    /\ display = <<"0">>
    /\ ~just_calculated

\* The press that passed the cooldown check found its precondition unmet.
Unmet ==
    \/ Accepted("=") /\ (current_number = <<>> \/ operation = "" \/ previous_number = <<>>)
    \/ (\E op \in Operators : Accepted(op)) /\ current_number = <<>>
    \/ Accepted("±") /\ (current_number = <<>> \/ current_number = <<"0">>)

\* C10: an = pressed while current_number, operation or previous_number is
\* empty, an operator pressed while current_number is empty, and a ±
\* pressed while current_number is empty or "0" change none of display,
\* current_number, previous_number, operation, just_calculated and history.
C10_UnmetPressChangesNothing ==
    [][Unmet => UNCHANGED <<display, current_number, previous_number,
                            operation, just_calculated, history>>]_vars

\* A second operator was pressed right after the first and did not replace
\* it.
C10_PendingOperatorKept ==
    /\ trace = <<"7", "+", "÷">>
    /\ last_printed = <<now, "÷">>
    /\ operation = "+"
    /\ previous_number = <<"7">>
    /\ current_number = <<>>

\* The buttons whose rectangle holds the point and whose center is not
\* farther from it than the touch threshold.
InReach(btns, point) ==
    IF point = <<>> THEN {}
    ELSE {b \in DOMAIN btns :
             /\ is_point_in_rect(point, btns[b].rect)
             /\ DistanceSq(point, btns[b].center) <= TouchThreshold * TouchThreshold}

\* C11: detect_button_touch returns a button only if its rectangle holds
\* the finger tip and its center is at most 30 away from it (exactly 30
\* included), and returns None exactly when there is no finger tip or no
\* such button.
C11_TouchedWithinRadius ==
    [][FrameRead
       => /\ touched_button' = None <=> InReach(buttons, finger_pos') = {}
          /\ touched_button' # None => touched_button' \in InReach(buttons, finger_pos')]_vars

\* Of the buttons in cands, those whose center is nearest to the point.
Nearest(btns, point, cands) ==
    {b \in cands : \A c \in cands :
        DistanceSq(point, btns[b].center) <= DistanceSq(point, btns[c].center)}

\* The order turned around.
Reversed(order) == [i \in 1..Len(order) |-> order[Len(order) + 1 - i]]

\* What detect_button_touch returns when it goes through the buttons in
\* the given order.
DetectInOrder(btns, order, point) == DetectFrom(btns, order, 1, point, None, 0)

\* C12: when two or more buttons are in reach of the finger tip, the one
\* returned is nearest to it, and it is the same one in whatever order the
\* buttons are gone through.  The only rectangles that hold a common point
\* are those of 0 and . ; at a point as far from the one center as from
\* the other the strict comparison of line 161 keeps the button gone
\* through first, so the reversed order returns the other one.
C12_NearestInAnyOrder ==
    [][(FrameRead /\ Cardinality(InReach(buttons, finger_pos')) >= 2)
       => /\ touched_button' \in Nearest(buttons, finger_pos', InReach(buttons, finger_pos'))
          /\ DetectInOrder(buttons, Reversed(ButtonOrder(buttons)), finger_pos')
                 = touched_button']_vars

\* The string with a leading minus taken away, or added if it has none.
Toggled(s) == IF s # <<>> /\ s[1] = "-" THEN Tail(s) ELSE <<"-">> \o s

\* C13: a ± pressed while current_number is neither empty nor "0" adds or
\* removes the leading minus of current_number and of the display, and
\* leaves a state in which a second ± gives both back as they were.
C13_NegateTogglesAndRestores ==
    [][(Accepted("±") /\ current_number # <<>> /\ current_number # <<"0">>)
       => /\ current_number' = Toggled(current_number)
          /\ display' = Toggled(display)
          /\ current_number' # <<>> /\ current_number' # <<"0">>
          /\ Toggled(current_number') = current_number
          /\ Toggled(display') = display]_vars

\* The step is the key r of the main loop.
ResetStruck == pc = "key" /\ last_printed' = last_printed /\ history' = <<>>

\* The step is an = that appended one entry to the history.
EntryAppended ==
    /\ Accepted("=")
    /\ Len(log') = Len(log) + 1
    /\ history' = LastN(Append(history, log'[Len(log')]), MaxHistory)

\* C14: the history changes only when an = is consumed, which appends one
\* entry, and when the key r is struck, which empties it; digits, the
\* point, the operators (also one that evaluates a pending operation), C,
\* del, ± and % leave it as it is.
C14_HistoryChangedOnlyByEqualsAndReset ==
    [][/\ \A b \in ButtonTexts \ {"="} : Accepted(b) => history' = history
       /\ history' # history => EntryAppended \/ ResetStruck]_vars

\* While the history holds the entry of 7 + 77, a second operator has
\* just evaluated the pending 84 + 847 and the history is as it was.
C14_ChainedWithEntryKept ==
    /\ last_printed = <<now, "+">>
    /\ operation = "+"
    /\ previous_number = <<"9", "3", "1">>
    /\ current_number = <<>>
    /\ history = <<HistoryEntry(<<"7">>, "+", <<"7", "7">>, <<"8", "4">>)>>

\* C15: calculate returns the error marker for a division of any number
\* by a string that reads as zero ("0", "0.", "0.0", "-0"), and also when
\* an operand is no number or the operator is none of + - × ÷; it always
\* returns a string.
C15_CalculateYieldsErrorMarker ==
    pc = "return"
    => /\ display # <<>>
       /\ (/\ operation = "÷"
           /\ previous_number \in NumericOperands
           /\ current_number \in ZeroOperands) => display = ErrorStr
       /\ (\/ previous_number \in OtherOperands
           \/ current_number \in OtherOperands
           \/ operation \in OtherOperators) => display = ErrorStr

\* calculate has returned the error marker for 0 ÷ -0.
C15_ZeroByMinusZero ==
    /\ pc = "return"
    /\ previous_number = <<"0">>
    /\ operation = "÷"
    /\ current_number = <<"-", "0">>
    /\ display = ErrorStr

\* What an operator must leave when the pending operation gave result.
ChainedTo(op, result) ==
    IF result # ErrorStr
    THEN /\ previous_number' = result
         /\ display' = result
         /\ operation' = op
         /\ current_number' = <<>>
         /\ ~just_calculated'
    ELSE /\ display' = ErrorStr
         /\ UNCHANGED <<previous_number, operation, current_number>>

\* What an operator must leave when no operation is pending.
Promoted(op) ==
    /\ previous_number' = current_number
    /\ operation' = op
    /\ current_number' = <<>>
    /\ ~just_calculated'

\* C16: an operator pressed while current_number, operation and
\* previous_number are all set evaluates the pending operation first: a
\* result that is no error becomes previous_number and the display, the
\* new operator is recorded, current_number emptied and just_calculated
\* cleared; the error marker is only displayed, and previous_number,
\* operation and current_number stay.  With nothing pending,
\* current_number becomes previous_number and the new operator is recorded.
C16_OperatorChains ==
    [][\A op \in Operators :
          (Accepted(op) /\ current_number # <<>>)
          => IF operation # "" /\ previous_number # <<>>
             THEN ChainedTo(op, Calculate(previous_number, operation, current_number))
             ELSE Promoted(op)]_vars

\* A + pressed on the pending 0 ÷ 0 has shown the error and changed
\* nothing else.
C16_ChainAborted ==
    /\ trace = <<"0", "÷", "0", "+">>
    /\ last_printed = <<now, "+">>
    /\ display = ErrorStr
    /\ operation = "÷"
    /\ previous_number = <<"0">>
    /\ current_number = <<"0">>

\* C17: a digit pressed while the display holds 12 characters, is neither
\* "0" nor an error and just_calculated is false is dropped: display,
\* current_number, previous_number, operation and just_calculated stay as
\* they are, also when an operator was pressed just before.
C17_DigitDroppedAtCap ==
    [][(/\ \E d \in DigitSet : Accepted(d)
        /\ Len(display) = MaxDisplayLen
        /\ ~just_calculated
        /\ ~Contains(display, ErrorStr))
       => UNCHANGED <<display, current_number, previous_number,
                      operation, just_calculated>>]_vars

\* The step is an = that found current_number, operation and
\* previous_number set.
EqualsConsumed ==
    /\ Accepted("=")
    /\ current_number # <<>> /\ operation # "" /\ previous_number # <<>>

\* The step is a digit pressed while just_calculated is set, and it starts
\* a new number.
FreshNumber ==
    \A d \in DigitSet :
        (Accepted(d) /\ just_calculated)
        => display' = <<d>> /\ current_number' = <<d>> /\ ~just_calculated'

\* The original wording of C18: just_calculated is set by every = that
\* evaluates, a digit pressed while it is set starts a new number and
\* clears it, and an operator pressed while it is set clears it.
C18_FlagClearedByDigitOrOperator ==
    [][/\ EqualsConsumed => just_calculated'
       /\ FreshNumber
       /\ \A op \in Operators :
             (Accepted(op) /\ just_calculated) => ~just_calculated']_vars

\* C18: just_calculated is set by every = that evaluates, to a number or
\* to the error marker; a digit pressed while it is set starts a new
\* number and clears it; an operator pressed while it is set clears it if
\* current_number is not empty, and otherwise (as after an evaluation to
\* the error marker) changes nothing and leaves it set.
C18_FlagClearedByDigitOrTakenOperator ==
    [][/\ EqualsConsumed => just_calculated'
       /\ FreshNumber
       /\ \A op \in Operators :
             (Accepted(op) /\ just_calculated)
             => IF current_number # <<>> THEN ~just_calculated'
                ELSE just_calculated' /\ operation' = operation]_vars

\* An operator has just been pressed after 0 ÷ 0 = and left
\* just_calculated set.
C18_OperatorAfterError ==
    /\ last_printed = <<now, "÷">>
    /\ just_calculated
    /\ display = ErrorStr
    /\ current_number = <<>>
    /\ operation = ""

\* What % must leave for the operand that float() read as f: a hundredth
\* of it, formatted as calculate formats its results.
PercentFormatted(f) ==
    IF f.ok
    THEN /\ display' = FormatResult(Hundredth(f).v)
         /\ current_number' = display'
    ELSE display' = ErrorStr

\* C19: a % pressed on a current_number that is a number sets the display
\* and current_number to a hundredth of it in the format of calculate (an
\* integral value without a point, at most 8 decimals, scientific
\* notation out of range); on one that is no number it displays the error
\* marker.
C19_PercentFormattedAsResults ==
    [][(Accepted("%") /\ current_number # <<>>)
       => PercentFormatted(PyFloat(current_number))]_vars

\* When the last press passed the cooldown check, 0 before any did.
LastAccepted == IF last_printed = <<>> THEN 0 ELSE last_printed[1]

\* C20: a frame in which no press passes the cooldown check (no touching
\* gesture, no button under the finger, or the cooldown still running)
\* leaves last_touch_time, display, current_number, previous_number,
\* operation, just_calculated and the history as they are; and a frame
\* with the gesture on a button is pressed as soon as touch_cooldown has
\* passed since the last press that passed the check.
C20_RefusedSampleChangesNothing ==
    [][FrameRead
       => /\ last_printed' = last_printed
              => UNCHANGED <<last_touch_time, display, current_number, previous_number,
                             operation, just_calculated, history>>
          /\ (/\ touching'
              /\ touched_button' # None
              /\ CooledDown(now' - LastAccepted)) => last_printed' # last_printed]_vars

\* A touch on a button has just been refused inside the cooldown of the
\* press before it.
C20_TouchRefusedInCooldown ==
    /\ pc = "key"
    /\ touching
    /\ touched_button # None
    /\ last_printed # <<>>
    /\ now > last_printed[1]
    /\ ~CooledDown(now - last_printed[1])
    /\ last_touch_time = last_printed[1]

\* The calculator as a C leaves it.
ClearedState ==
    /\ display' = <<"0">>
    /\ current_number' = <<>>
    /\ previous_number' = <<>>
    /\ operation' = ""
    /\ just_calculated' = FALSE

\* C21: whenever the key c is struck, in any state and however recently a
\* touch was accepted, the display becomes "0", current_number,
\* previous_number and operation become empty and just_calculated false,
\* as after a touch of the button C.
C21_KeyboardClearResets ==
    [][(\E wait \in TimingEnv.waits : HandleKey(wait, "c", TimingEnv)) => ClearedState]_vars

\* C22: the operation is non-empty if and only if previous_number is
\* non-empty, in every state reached by presses of digits, operators
\* (chained or aborted by an error), =, C, del, ± and %.
C22_OperatorIffFirstOperand ==
    (operation # "") <=> (previous_number # <<>>)

\* A chained division by zero has been aborted: the error is displayed,
\* and the operator and both operands are still held.
C22_PendingAfterAbortedChain ==
    /\ trace = <<"0", "÷", "0", "+">>
    /\ display = ErrorStr
    /\ operation = "÷"
    /\ previous_number = <<"0">>

\* The rectangles (x1, y1, x2, y2), which is_point_in_rect takes with their
\* edges, have a point in common.
RectsMeet(rect1, rect2) ==
    /\ rect1[1] <= rect2[3] /\ rect2[1] <= rect1[3]
    /\ rect1[2] <= rect2[4] /\ rect2[2] <= rect1[4]

\* C23: the hit rectangles of two distinct buttons of the layout have no
\* point in common, and the button found for the finger tip is the only
\* one whose rectangle contains it; in particular the rectangles of the
\* buttons 0 and . do not overlap.
C23_HitRectanglesDisjoint ==
    /\ \A a, b \in DOMAIN buttons :
          a # b => ~RectsMeet(buttons[a].rect, buttons[b].rect)
    /\ touched_button # None
          => \A b \in DOMAIN buttons :
                is_point_in_rect(finger_pos, buttons[b].rect) => b = touched_button

=============================================================================
